---- MODULE Spec2Model ----
(***************************************************************************)
(* AI-Broker: load intake, missing-information follow-ups, thread          *)
(* resolution and LoadBlast carrier outreach.                              *)
(*                                                                         *)
(* Seven specifications share this module:                                 *)
(*   Spec         one inbound tender through intake_graph.py (classify,    *)
(*                ask_more, ack) and the follow-ups to it through          *)
(*                handle_missing_info_response.py                          *)
(*   SpecAmbiguous the follow-up handlers on a table that holds two        *)
(*                incomplete loads of one shipper                          *)
(*   SpecBlast    src/agents/loadblast/graph.py runs over a stored load    *)
(*   SpecResolve  the two lookup functions of the follow-up handler over   *)
(*                tables of several incomplete loads                       *)
(*   SpecClassify detect_freight_complexity called on a text and a field   *)
(*                map                                                      *)
(*   SpecMatch    src/agents/intake/enhanced_graph.py with the carrier     *)
(*                scoring of src/services/carrier_matching.py              *)
(*   SpecTiers    get_carrier_tiers on a scored carrier list               *)
(***************************************************************************)
EXTENDS Integers, Sequences, FiniteSets, TLC

(***************************************************************************)
(* Python values.  A JSON value is None, an int, a float or a str; one     *)
(* record shape carries all of them so that values of different types      *)
(* compare unequal.  FloatV(k) is the float k.0, what json.loads makes of  *)
(* a number written with a decimal point.                                  *)
(***************************************************************************)
None == [ty |-> "none", n |-> 0, s |-> ""]
IntV(k) == [ty |-> "int", n |-> k, s |-> ""]
FloatV(k) == [ty |-> "float", n |-> k, s |-> ""]
StrV(t) == [ty |-> "str", n |-> 0, s |-> t]

\* bool(v): None, 0, 0.0 and "" are falsy
Truthy(v) == \/ (v.ty \in {"int", "float"} /\ v.n # 0)
             \/ (v.ty = "str" /\ v.s # "")

\* dict.get(key) with the default None; a dict is a function on its keys
Get(d, k) == IF k \in DOMAIN d THEN d[k] ELSE None

\* dict.get(key, default)
GetOr(d, k, dflt) == IF k \in DOMAIN d THEN d[k] ELSE dflt

Range(q) == {q[i] : i \in 1..Len(q)}

\* the dict {**a, **b}: b's keys win
DictMerge(a, b) == [k \in (DOMAIN a) \cup (DOMAIN b) |->
                      IF k \in DOMAIN b THEN b[k] ELSE a[k]]

EmptyDict == [k \in {} |-> None]

(***************************************************************************)
(* intake_graph.py: required fields and the completeness check             *)
(***************************************************************************)
REQUIRED == <<"origin_zip", "dest_zip", "pickup_dt", "equipment", "weight_lb">>

RequiredSet == Range(REQUIRED)

\* mutant: only a field without a value is missing; 0 and "" count as given
missing_none_only(d) == SelectSeq(REQUIRED, LAMBDA f : Get(d, f) = None)

\* [f for f in REQUIRED if not d.get(f)]
missing(d) == SelectSeq(REQUIRED, LAMBDA f : ~Truthy(Get(d, f)))

(***************************************************************************)
(* detect_freight_complexity(raw_text, load_data).                         *)
(* A text is abstracted to what the detectors read from it: the set of     *)
(* detectors whose keyword list or regular expressions match it (kw) and   *)
(* the number of distinct 5-digit tokens in it (zips).                     *)
(***************************************************************************)
DETECTORS == <<"HAZMAT", "OVERSIZE", "MULTI_STOP", "INTERMODAL", "LTL",
               "PARTIAL", "FLATBED">>

OverweightLb == 80000
LtlWeightLb == 10000
LtlPieces == 10
PartialWeightLb == 20000
MultiStopZips == 2

\* str.lower() on the equipment names the model uses
Lower(t) == CASE t = "Van" -> "van"
              [] t = "Flatbed" -> "flatbed"
              [] t = "Reefer" -> "reefer"
              [] t = "Stepdeck" -> "stepdeck"
              [] OTHER -> t

FlatbedEquipment == {"flatbed", "stepdeck", "lowboy", "rgn", "double drop"}

\* load_data.get('equipment', '').lower() raises AttributeError unless the
\* value is a str
EquipmentRaises(d) == GetOr(d, "equipment", StrV("")).ty # "str"

\* isinstance(weight_lb, int) and 0 < weight_lb < limit
IntBelow(v, limit) == v.ty = "int" /\ v.n > 0 /\ v.n < limit

DetectorFires(name, text, d) ==
    LET w == GetOr(d, "weight_lb", IntV(0))
        p == GetOr(d, "pieces", IntV(0))
        e == GetOr(d, "equipment", StrV(""))
    IN  CASE name = "HAZMAT" ->
               name \in text.kw \/ Truthy(GetOr(d, "hazmat", None))
          [] name = "OVERSIZE" ->
               name \in text.kw \/ (w.ty = "int" /\ w.n > OverweightLb)
          [] name = "MULTI_STOP" ->
               name \in text.kw \/ text.zips > MultiStopZips
          [] name = "INTERMODAL" -> name \in text.kw
          [] name = "LTL" ->
               \/ name \in text.kw
               \/ IntBelow(w, LtlWeightLb)
               \/ IntBelow(p, LtlPieces)
          [] name = "PARTIAL" ->
               name \in text.kw \/ IntBelow(w, PartialWeightLb)
          [] name = "FLATBED" ->
               name \in text.kw \/ Lower(e.s) \in FlatbedEquipment

\* mutant: the weight check of LTL appends its flag a second time
detect_freight_complexity_twice(text, d) ==
    SelectSeq(DETECTORS \o <<"LTL">>,
              LAMBDA name : DetectorFires(name, text, d))

\* the complexity_flags list, in detector order
detect_freight_complexity(text, d) ==
    SelectSeq(DETECTORS, LAMBDA name : DetectorFires(name, text, d))

(***************************************************************************)
(* State                                                                   *)
(***************************************************************************)
VARIABLES
    loads,        \* the loads table: rows in creation order (id = position)
    intake,       \* the intake_graph run: its node and LangGraph state
    handler,      \* each follow-up handler: its position and locals
    followUps,    \* follow-up e-mails handled so far
    outbox,       \* missing-info request e-mails sent to shippers
    load_blasts,  \* the load_blasts table: rows in insertion order
    carrierMail,  \* e-mails delivered to carriers by Resend
    run,          \* each LoadBlast run: its node, LangGraph state, loop index
    overlap,      \* history: a run started while another was in progress
    rquery,       \* the follow-up a lookup was made for: token, sender, subject
    rresult,      \* the row that lookup returned, NoRow when none
    cls,          \* calls of detect_freight_complexity: input and returns
    match,        \* the enhanced intake run: its node and LangGraph state
    tiering       \* a call of get_carrier_tiers: its input and its return

varsIntake == <<loads, intake, handler, followUps, outbox>>
varsBlast == <<load_blasts, carrierMail, run, overlap>>
varsResolve == <<rquery, rresult>>
varsScoring == <<cls, match, tiering>>
vars == <<loads, intake, handler, followUps, outbox, load_blasts,
          carrierMail, run, overlap, rquery, rresult, cls, match, tiering>>

NoRow == [id |-> 0]

NoQuery == [thread_id |-> 0, from |-> "", subject |-> {}]

\* bound of the model: the follow-up e-mails handled
MaxFollowUps == 2

Handlers == {"h1", "h2"}

(***************************************************************************)
(* Inputs: what the LLM extracts from an inbound tender, and the texts     *)
(***************************************************************************)
Absent == [ty |-> "absent", n |-> 0, s |-> ""]

\* the dict holding the keys of m that are not Absent
MkDict(m) == [k \in {j \in DOMAIN m : m[j] # Absent} |-> m[k]]

IntakeExtractions ==
    {MkDict([origin_zip |-> StrV("90210"), dest_zip |-> dz,
             pickup_dt |-> StrV("2025-01-15"), equipment |-> eq,
             weight_lb |-> w]) :
        dz \in {Absent, StrV("30303")},
        eq \in {None, StrV("Van")},
        w \in {Absent, IntV(0), IntV(25000), IntV(8000)}}

IntakeTexts == {[kw |-> {}, zips |-> 1], [kw |-> {"HAZMAT"}, zips |-> 2]}

ShipperEmail == "shipper@example.com"
OtherEmail == "other@example.com"

(***************************************************************************)
(* Message-IDs and conversation events                                     *)
(***************************************************************************)
MsgId(kind, k) == [kind |-> kind, n |-> k]

NoMsg == MsgId("none", 0)

Event(direction, type, message_id, fields) ==
    [direction |-> direction, type |-> type, message_id |-> message_id,
     fields |-> fields]

(***************************************************************************)
(* intake_graph.py: the nodes classify, ask_more and ack.  The record      *)
(* store keeps the posted payload as a row and gives it its id, its load   *)
(* number and the status NEW_RFQ; a thread id is a fresh uuid, modelled by *)
(* the position of the row.                                                *)
(***************************************************************************)
IntakeIdle == [pc |-> "idle", load |-> EmptyDict, flags |-> <<>>,
               review |-> FALSE, missing |-> <<>>, outcome |-> "none"]

\* the columns of the required fields, null where the payload has no key
Columns(d) == [f \in RequiredSet |-> Get(d, f)]

\* the payload save_incomplete_load posts, as the row it becomes
IncompleteRow(id, st, missing_fields, request_message_id) ==
    [id |-> id, load_number |-> id, status |-> "NEW_RFQ",
     shipper_email |-> ShipperEmail, thread_id |-> id,
     cols |-> Columns(st.load),
     missing_fields |-> missing_fields,
     is_complete |-> FALSE,
     complexity_flags |-> st.flags,
     requires_human_review |-> st.review,
     follow_up_count |-> 1,
     latest_message_id |-> request_message_id,
     email_conversation |->
        <<Event("outbound", "missing_info_request", request_message_id,
                missing_fields)>>]

\* the payload ack posts, as the row it becomes
CompleteRow(id, st) ==
    [id |-> id, load_number |-> id, status |-> "NEW_RFQ",
     shipper_email |-> ShipperEmail, thread_id |-> id,
     cols |-> Columns(st.load),
     missing_fields |-> <<>>,
     is_complete |-> TRUE,
     complexity_flags |-> st.flags,
     requires_human_review |-> st.review,
     follow_up_count |-> 0,
     latest_message_id |-> MsgId("tender", id),
     email_conversation |->
        <<Event("inbound", "initial_tender", MsgId("tender", id), <<>>)>>]

\* mutant: a single flag does not ask for review
requires_human_review_two(complexity_flags) == Len(complexity_flags) > 1

\* len(complexity_flags) > 0
requires_human_review(complexity_flags) == Len(complexity_flags) > 0

\* "ask_more" if state["missing"] else "ack"
route_after_classify(st) == IF st.missing # <<>> THEN "ask_more" ELSE "ack"

\* classify: the LLM's JSON becomes the load; complexity detection runs on
\* the e-mail text and the load; a non-str equipment makes it raise
classify ==
    /\ intake.pc = "idle"
    /\ \E d \in IntakeExtractions, text \in IntakeTexts :
          IF EquipmentRaises(d)
          THEN intake' = [IntakeIdle EXCEPT !.pc = "crashed",
                                            !.outcome = "raised"]
          ELSE LET fl == detect_freight_complexity(text, d)
               IN  intake' = [pc |-> "classified", load |-> d, flags |-> fl,
                              review |-> requires_human_review(fl), missing |-> missing(d),
                              outcome |-> "none"]
    /\ UNCHANGED <<loads, handler, followUps, outbox, varsBlast, varsResolve, varsScoring>>

\* ask_more: send the request e-mail, then save_incomplete_load
ask_more ==
    /\ intake.pc = "classified"
    /\ route_after_classify(intake) = "ask_more"
    /\ \E out \in {"not_configured", "send_failed", "save_failed", "saved"} :
          LET id == Len(loads) + 1
              message_id == MsgId("request", Len(outbox) + 1)
          IN  /\ outbox' = IF out \in {"save_failed", "saved"}
                           THEN Append(outbox,
                                  [message_id |-> message_id,
                                   fields |-> intake.missing])
                           ELSE outbox
              /\ loads' = IF out = "saved"
                          THEN Append(loads,
                                 IncompleteRow(id, intake, intake.missing,
                                               message_id))
                          ELSE loads
              /\ intake' = [IntakeIdle EXCEPT !.pc = "done", !.outcome = out]
    /\ UNCHANGED <<handler, followUps, varsBlast, varsResolve, varsScoring>>

\* ack: post the complete load
ack ==
    /\ intake.pc = "classified"
    /\ route_after_classify(intake) = "ack"
    /\ \E out \in {"save_failed", "saved"} :
          /\ loads' = IF out = "saved"
                      THEN Append(loads, CompleteRow(Len(loads) + 1, intake))
                      ELSE loads
          /\ intake' = [IntakeIdle EXCEPT !.pc = "done", !.outcome = out]
    /\ UNCHANGED <<handler, followUps, outbox, varsBlast, varsResolve, varsScoring>>

(***************************************************************************)
(* handle_missing_info_response.py: the two lookups.  A table lists its    *)
(* rows in creation order, so "created_at desc" is from the last row back. *)
(* A subject line is abstracted to the set of load numbers that occur in   *)
(* it as substrings; load number 0 stands for an empty load number.        *)
(***************************************************************************)
EmailLookupLimit == 5

RECURSIVE NewestFirst(_, _)
NewestFirst(table, i) ==
    IF i = 0 THEN <<>> ELSE <<table[i]>> \o NewestFirst(table, i - 1)

Limit(q, k) == SubSeq(q, 1, IF Len(q) < k THEN Len(q) ELSE k)

\* the lookup without its descending order: the oldest row of the thread
find_incomplete_load_by_thread_oldest(table, thread_id) ==
    LET found == Limit(SelectSeq(table,
                         LAMBDA r : r.thread_id = thread_id /\ ~r.is_complete),
                       1)
    IN  IF Len(found) > 0 THEN found[1] ELSE NoRow

\* the lookup without its is_complete filter
find_incomplete_load_by_thread_any(table, thread_id) ==
    LET found == Limit(SelectSeq(NewestFirst(table, Len(table)),
                         LAMBDA r : r.thread_id = thread_id),
                       1)
    IN  IF Len(found) > 0 THEN found[1] ELSE NoRow

\* .eq("thread_id", t).eq("is_complete", False).order(desc).limit(1)
find_incomplete_load_by_thread(table, thread_id) ==
    LET found == Limit(SelectSeq(NewestFirst(table, Len(table)),
                         LAMBDA r : r.thread_id = thread_id /\ ~r.is_complete),
                       1)
    IN  IF Len(found) > 0 THEN found[1] ELSE NoRow

\* the lookup without its subject match: the sender's newest incomplete load
find_incomplete_load_by_email_newest(table, shipper_email, subject) ==
    LET data == Limit(SelectSeq(NewestFirst(table, Len(table)),
                        LAMBDA r : r.shipper_email = shipper_email
                                     /\ ~r.is_complete),
                      EmailLookupLimit)
    IN  IF Len(data) = 0 THEN NoRow ELSE data[1]

\* .eq("shipper_email", e).eq("is_complete", False).order(desc).limit(5),
\* then the subject match
find_incomplete_load_by_email(table, shipper_email, subject) ==
    LET data == Limit(SelectSeq(NewestFirst(table, Len(table)),
                        LAMBDA r : r.shipper_email = shipper_email
                                     /\ ~r.is_complete),
                      EmailLookupLimit)
        hits == SelectSeq(data, LAMBDA r : r.load_number # 0
                                             /\ r.load_number \in subject)
    IN  IF Len(data) = 0 THEN NoRow
        ELSE IF Len(data) = 1 THEN data[1]
        ELSE IF Len(hits) > 0 THEN hits[1]
        ELSE data[1]

\* step 2 of handle_missing_info_response: thread id first, then sender;
\* thread id 0 is the empty thread id
FindIncompleteLoad(table, q) ==
    LET byThread == IF q.thread_id # 0
                    THEN find_incomplete_load_by_thread(table, q.thread_id)
                    ELSE NoRow
    IN  IF byThread.id # 0 THEN byThread
        ELSE IF q.from # ""
        THEN find_incomplete_load_by_email(table, q.from, q.subject)
        ELSE NoRow

(***************************************************************************)
(* extract_missing_information: the LLM's reply, then the cleaning loop    *)
(***************************************************************************)
\* int(re.sub(r'[^\d]', '', value)); -1 where no digit is left and int('')
\* raises ValueError
DigitsOf(t) == CASE t = "8,000 lbs" -> 8000
                 [] t = "25,000 lbs" -> 25000
                 [] OTHER -> -1

\* str(int(value)).zfill(5)
Zfill5(k) == CASE k = 30303 -> "30303"
               [] k = 10001 -> "10001"
               [] k = 501 -> "00501"
               [] OTHER -> "00000"

CleanRaises(field, v) ==
    field = "weight_lb" /\ v.ty = "str" /\ DigitsOf(v.s) < 0

CleanValue(field, v) ==
    IF field = "weight_lb" /\ v.ty = "str" THEN IntV(DigitsOf(v.s))
    ELSE IF field \in {"origin_zip", "dest_zip"} /\ v.ty = "int"
    THEN StrV(Zfill5(v.n))
    ELSE v

\* the extraction that drops a value it cannot clean and keeps the others
extract_missing_information_partial(llm, missing_fields) ==
    LET keep == {f \in DOMAIN llm.json :
                    /\ f \in Range(missing_fields)
                    /\ llm.json[f] # None
                    /\ ~CleanRaises(f, llm.json[f])}
    IN  IF ~llm.ok THEN EmptyDict
        ELSE [f \in keep |-> CleanValue(f, llm.json[f])]

\* llm: [ok, json]; ok is false when the call raises or its reply is no JSON
extract_missing_information(llm, missing_fields) ==
    LET keep == {f \in DOMAIN llm.json :
                    f \in Range(missing_fields) /\ llm.json[f] # None}
    IN  IF ~llm.ok THEN EmptyDict
        ELSE IF \E f \in keep : CleanRaises(f, llm.json[f]) THEN EmptyDict
        ELSE [f \in keep |-> CleanValue(f, llm.json[f])]

\* what the LLM may answer to a follow-up: it repeats the origin it was
\* shown and gives null for the equipment
FollowUpReplies ==
    {[ok |-> TRUE,
      json |-> MkDict([origin_zip |-> StrV("11111"), dest_zip |-> dz,
                       equipment |-> None, weight_lb |-> w])] :
        dz \in {Absent, IntV(30303), StrV("10001")},
        w \in {Absent, IntV(25000), StrV("8,000 lbs"), StrV("tbd")}}
    \cup {[ok |-> FALSE, json |-> EmptyDict]}

(***************************************************************************)
(* update_incomplete_load                                                  *)
(***************************************************************************)
\* detect_freight_complexity takes two required positional parameters and
\* update_incomplete_load calls it with one: the call raises TypeError
DetectParams == 2
UpdateCallArgs == 1

\* the call with the arguments its callee declares
ComplexityCallAccepted == FALSE

ComplexityCallRaises == UpdateCallArgs < DetectParams

\* the text update_incomplete_load builds from the merged load: its labels
\* "Equipment:" and "Weight: ... lbs" match the FLATBED keyword list and an
\* OVERSIZE pattern; its 5-digit tokens are the two ZIP codes
LoadText(complete) == [kw |-> {"OVERSIZE", "FLATBED"}, zips |-> 2]

\* {field: value for field in new_data if field in REQUIRED and value}
updated_fields(new_data) ==
    [f \in {k \in DOMAIN new_data : k \in RequiredSet /\ new_data[k] # None}
       |-> new_data[f]]

all_fields_present(current_load, upd) ==
    \A f \in RequiredSet : current_load.cols[f] # None \/ Get(upd, f) # None

\* mutant: the missing list is recomputed from the fetched row alone
still_missing_stale(current_load, upd) ==
    SelectSeq(REQUIRED, LAMBDA f : current_load.cols[f] = None)

\* mutant: the missing list is cleared by every merge
still_missing_cleared(current_load, upd) == <<>>

still_missing(current_load, upd) ==
    SelectSeq(REQUIRED,
              LAMBDA f : current_load.cols[f] = None /\ Get(upd, f) = None)

fields_provided(new_data) == SelectSeq(REQUIRED, LAMBDA f : f \in DOMAIN new_data)

\* the conversation entry appended for the follow-up
InboundEvent(new_data, email_message_id) ==
    Event("inbound", "missing_info_provided", email_message_id,
          fields_provided(new_data))

\* the update_data dict: [raised |-> TRUE] when building it raises
update_data(current_load, new_data, email_message_id) ==
    LET upd == updated_fields(new_data)
        present == all_fields_present(current_load, upd)
        complete_load == DictMerge(current_load.cols, upd)
        flags == detect_freight_complexity(LoadText(complete_load), EmptyDict)
    IN  IF present /\ ComplexityCallRaises
        THEN [raised |-> TRUE]
        ELSE [raised |-> FALSE,
              fields |-> upd,
              latest_message_id |-> email_message_id,
              is_complete |-> present,
              follow_up_count |-> current_load.follow_up_count + 1,
              sets_flags |-> present,
              complexity_flags |-> IF present THEN flags ELSE <<>>,
              requires_human_review |-> present /\ requires_human_review(flags),
              missing_fields |-> IF present THEN <<>>
                                 ELSE still_missing(current_load, upd),
              email_conversation |->
                  Append(current_load.email_conversation,
                         InboundEvent(new_data, email_message_id))]

\* .update(update_data).eq("id", load_id): the columns named are overwritten
ApplyUpdate(row, ud) ==
    [row EXCEPT
        !.cols = DictMerge(@, ud.fields),
        !.latest_message_id = ud.latest_message_id,
        !.is_complete = ud.is_complete,
        !.follow_up_count = ud.follow_up_count,
        !.complexity_flags = IF ud.sets_flags THEN ud.complexity_flags ELSE @,
        !.requires_human_review =
            IF ud.sets_flags THEN ud.requires_human_review ELSE @,
        !.missing_fields = ud.missing_fields,
        !.email_conversation = ud.email_conversation]

(***************************************************************************)
(* handle_missing_info_response, one follow-up e-mail per handler run.     *)
(* Its steps are its accesses to the loads table: the lookup, the LLM      *)
(* extraction, the read and the write of update_incomplete_load.           *)
(***************************************************************************)
NoResult == [success |-> FALSE, reason |-> "none", load_id |-> 0,
             is_complete |-> FALSE, requires_human_review |-> FALSE,
             next_action |-> "none", still_missing |-> <<>>]

Failure(reason, load_id) ==
    [NoResult EXCEPT !.reason = reason, !.load_id = load_id]

\* step 5: the result built from the updated row
Success(updated_load) ==
    [success |-> TRUE, reason |-> "ok", load_id |-> updated_load.id,
     is_complete |-> updated_load.is_complete,
     requires_human_review |-> updated_load.requires_human_review,
     next_action |->
        IF updated_load.is_complete
        THEN IF ~updated_load.requires_human_review
             THEN "ready_for_loadblast" ELSE "needs_human_review"
        ELSE "awaiting_more_info",
     still_missing |-> IF updated_load.is_complete THEN <<>>
                       ELSE updated_load.missing_fields]

\* attempts counts the calls of extract_missing_information's LLM
HandlerIdle == [pc |-> "idle", email |-> NoQuery, load |-> NoRow,
                attempts |-> 0, data |-> EmptyDict, cur |-> NoRow,
                updated |-> NoRow, msg |-> NoMsg, result |-> NoResult]

\* the handler returns result; its locals stay as they were
Done(h, result) ==
    handler' = [handler EXCEPT ![h].pc = "done", ![h].result = result]

\* the follow-up e-mails a handler may be given; with one stored load the
\* subject decides nothing here (SpecResolve varies it)
FollowUpEmails ==
    {[thread_id |-> t, from |-> f, subject |-> {}] :
        t \in 0..2, f \in {ShipperEmail, OtherEmail}}

\* on a table with several loads, the follow-ups whose subject contains
\* load numbers
SubjectEmails(table) ==
    IF Len(table) < 2 THEN {}
    ELSE {[thread_id |-> 0, from |-> ShipperEmail, subject |-> {n}] :
            n \in {1, 2}}

\* steps 1 and 2: classify the e-mail, find the load, read its missing_fields
HandleResolve(h) ==
    /\ handler[h].pc \in {"idle", "done"}
    /\ followUps < MaxFollowUps
    /\ followUps' = followUps + 1
    /\ \E q \in FollowUpEmails \cup SubjectEmails(loads),
          intent \in {"MISSING_INFO_RESPONSE", "OTHER"} :
          LET incomplete_load == FindIncompleteLoad(loads, q)
              msg == MsgId("reply", followUps + 1)
              fail(reason, id) ==
                  handler' = [handler EXCEPT ![h] =
                                [HandlerIdle EXCEPT !.pc = "done", !.msg = msg,
                                     !.email = q,
                                     !.result = Failure(reason, id)]]
          IN  IF intent # "MISSING_INFO_RESPONSE"
              THEN fail("not_missing_info_response", 0)
              ELSE IF incomplete_load.id = 0
              THEN fail("no_incomplete_load", 0)
              ELSE IF Len(incomplete_load.missing_fields) = 0
              THEN handler' = [handler EXCEPT ![h] =
                                 [HandlerIdle EXCEPT !.pc = "done",
                                      !.msg = msg, !.email = q,
                                      !.load = incomplete_load,
                                      !.result =
                                         Failure("no_missing_fields",
                                                 incomplete_load.id)]]
              ELSE handler' = [handler EXCEPT ![h] =
                                 [HandlerIdle EXCEPT !.pc = "resolved",
                                      !.msg = msg, !.email = q,
                                      !.load = incomplete_load]]
    /\ UNCHANGED <<loads, intake, outbox, varsBlast, varsResolve, varsScoring>>

\* step 3: extract the missing information
HandleExtract(h) ==
    /\ handler[h].pc = "resolved"
    /\ \E llm \in FollowUpReplies :
          LET extracted_data ==
                  extract_missing_information(llm, handler[h].load.missing_fields)
          IN  IF DOMAIN extracted_data = {}
              THEN handler' = [handler EXCEPT
                                 ![h].pc = "done", ![h].attempts = @ + 1,
                                 ![h].result =
                                    Failure("no_extraction",
                                            handler[h].load.id)]
              ELSE handler' = [handler EXCEPT ![h].pc = "extracted",
                                              ![h].attempts = @ + 1,
                                              ![h].data = extracted_data]
    /\ UNCHANGED <<loads, intake, followUps, outbox, varsBlast, varsResolve, varsScoring>>

\* update_incomplete_load: fetch the current row
UpdateFetch(h) ==
    /\ handler[h].pc = "extracted"
    /\ handler' = [handler EXCEPT ![h].pc = "fetched",
                                  ![h].cur = loads[handler[h].load.id]]
    /\ UNCHANGED <<loads, intake, followUps, outbox, varsBlast, varsResolve, varsScoring>>

\* an update that answers with no row although it was applied
update_without_data_applied(table, id, ud) ==
    [table EXCEPT ![id] = ApplyUpdate(table[id], ud)]

\* .update(update_data).eq("id", load_id).execute() answering with no row:
\* no row was updated
update_without_data(table, id, ud) == table

\* update_incomplete_load: build update_data and write it; then steps 4, 5
UpdateWrite(h) ==
    /\ handler[h].pc = "fetched"
    /\ LET id == handler[h].cur.id
           ud == update_data(handler[h].cur, handler[h].data, handler[h].msg)
       IN  IF ud.raised
           THEN /\ Done(h, Failure("update_raised", id))
                /\ UNCHANGED loads
           ELSE \E accepted \in BOOLEAN :
                   IF accepted
                   THEN LET updated_load == ApplyUpdate(loads[id], ud)
                        IN  /\ loads' = [loads EXCEPT ![id] = updated_load]
                            /\ handler' =
                                  [handler EXCEPT
                                      ![h].pc = "done",
                                      ![h].updated = updated_load,
                                      ![h].result = Success(updated_load)]
                   ELSE /\ Done(h, Failure("update_rejected", id))
                        /\ loads' = update_without_data(loads, id, ud)
    /\ UNCHANGED <<intake, followUps, outbox, varsBlast, varsResolve, varsScoring>>

(***************************************************************************)
(* Spec: intake and follow-up handling                                     *)
(***************************************************************************)
BlastUnused ==
    /\ load_blasts = <<>>
    /\ carrierMail = <<>>
    /\ run = <<>>
    /\ overlap = FALSE

ResolveUnused ==
    /\ rquery = NoQuery
    /\ rresult = NoRow

ClassifyUnused == cls = <<>>

MatchUnused == match = <<>>

TiersUnused == tiering = <<>>

ScoringUnused ==
    /\ ClassifyUnused
    /\ MatchUnused
    /\ TiersUnused

Init ==
    /\ loads = <<>>
    /\ intake = IntakeIdle
    /\ handler = [h \in Handlers |-> HandlerIdle]
    /\ followUps = 0
    /\ outbox = <<>>
    /\ BlastUnused
    /\ ResolveUnused
    /\ ScoringUnused

Next ==
    \/ classify
    \/ ask_more
    \/ ack
    \/ \E h \in Handlers : HandleResolve(h)
    \/ \E h \in Handlers : HandleExtract(h)
    \/ \E h \in Handlers : UpdateFetch(h)
    \/ \E h \in Handlers : UpdateWrite(h)

Spec == Init /\ [][Next]_vars

(***************************************************************************)
(* Claims checked under Spec                                               *)
(***************************************************************************)
Rows == {loads[i] : i \in 1..Len(loads)}

\* C1: every stored load has is_complete true exactly when its stored
\* missing_fields list is empty - after save_incomplete_load, after ack and
\* after every update_incomplete_load merge.
C1_CompleteIffNoMissing ==
    \A r \in Rows : r.is_complete <=> (r.missing_fields = <<>>)

\* a load saved incomplete and then merged by a follow-up that left it
\* incomplete
C1_Witness ==
    \E r \in Rows : /\ r.follow_up_count > 1
                    /\ ~r.is_complete
                    /\ Len(r.missing_fields) > 0

\* a handler run that was the only follow-up to a load saved with one
\* request, and whose extraction gave a value for every missing field
SuppliesAll(h) ==
    /\ handler[h].pc = "done"
    /\ followUps = 1
    /\ handler[h].load.id # 0
    /\ handler[h].load.follow_up_count = 1
    /\ Range(handler[h].load.missing_fields) \subseteq DOMAIN handler[h].data
    /\ handler[h].result.reason # "update_rejected"

\* C5: when a single follow-up supplies every missing field of a load that
\* was saved incomplete with one request, the handler succeeds and the
\* stored load has is_complete = true, missing_fields = [] and
\* follow_up_count = 1.
C5_FollowUpCompletes ==
    \A h \in Handlers :
        SuppliesAll(h) =>
            /\ handler[h].result.success
            /\ loads[handler[h].load.id].is_complete
            /\ loads[handler[h].load.id].missing_fields = <<>>
            /\ loads[handler[h].load.id].follow_up_count = 1

\* the Field Ledger state of a row
Ledger(r) == [cols |-> r.cols, missing_fields |-> r.missing_fields,
              is_complete |-> r.is_complete]

\* update_incomplete_load on a row of its own: the row afterwards
Merge(r, new_data) ==
    LET ud == update_data(r, new_data, NoMsg)
    IN  IF ud.raised THEN r ELSE ApplyUpdate(r, ud)

\* every extraction result the follow-up replies can give
ExtractionResults ==
    {extract_missing_information(llm, REQUIRED) : llm \in FollowUpReplies}

\* handler g merged the very row that handler h had written, with the same
\* extraction result
MergedAgain(h, g) ==
    /\ h # g
    /\ handler[h].pc = "done" /\ handler[h].result.success
    /\ handler[g].pc = "done" /\ handler[g].result.success
    /\ handler[g].cur = handler[h].updated
    /\ handler[g].data = handler[h].data

\* C6: merging is idempotent - a second update_incomplete_load with the
\* same extraction result leaves the required-field values, missing_fields
\* and is_complete as the first left them: for the merges the handlers
\* performed, and for every extraction result on every stored row.
C6_MergeIdempotent ==
    /\ \A h, g \in Handlers :
          MergedAgain(h, g) =>
              Ledger(handler[g].updated) = Ledger(handler[h].updated)
    /\ \A r \in Rows : \A d \in ExtractionResults :
          Ledger(Merge(Merge(r, d), d)) = Ledger(Merge(r, d))

\* the same extraction result was merged twice, and the merge wrote a field
C6_Witness ==
    \E h, g \in Handlers :
        /\ MergedAgain(h, g)
        /\ Ledger(handler[h].updated) # Ledger(handler[h].cur)

\* C7: every stored load has requires_human_review true exactly when its
\* complexity flag list is non-empty, and the report the handler builds for
\* a completed load says ready_for_loadblast exactly when that load has no
\* flag and needs_human_review otherwise: for every stored complete load,
\* and for every completed load a handler reported.
C7_ReviewIffFlagged ==
    /\ \A r \in Rows :
          r.requires_human_review <=> (r.complexity_flags # <<>>)
    /\ \A r \in Rows :
          r.is_complete =>
             /\ (Success(r).next_action = "ready_for_loadblast")
                   <=> (r.complexity_flags = <<>>)
             /\ (Success(r).next_action = "needs_human_review")
                   <=> (r.complexity_flags # <<>>)
    /\ \A h \in Handlers :
          (handler[h].pc = "done" /\ handler[h].result.success
              /\ handler[h].result.is_complete) =>
             /\ (handler[h].result.next_action = "ready_for_loadblast")
                   <=> (handler[h].updated.complexity_flags = <<>>)
             /\ (handler[h].result.next_action = "needs_human_review")
                   <=> (handler[h].updated.complexity_flags # <<>>)

\* a complete load stored with one flag, under review, whose report says
\* needs_human_review
C7_Witness ==
    \E r \in Rows : /\ r.is_complete
                    /\ r.requires_human_review
                    /\ Len(r.complexity_flags) = 1
                    /\ Success(r).next_action = "needs_human_review"

\* no incomplete load carries the follow-up's token or its sender
NoCandidate(table, q) ==
    \A k \in 1..Len(table) :
       table[k].is_complete
         \/ (/\ (q.thread_id = 0 \/ table[k].thread_id # q.thread_id)
             /\ table[k].shipper_email # q.from)

\* C11: the lookup of a follow-up returns at most one load, a row of the
\* table that is incomplete when it is looked up; when no incomplete load
\* carries the follow-up's token or its sender the lookup finds nothing,
\* the handler ends unsuccessful and no load is changed.
C11_ResolveIncompleteOrNotFound ==
    [][\A h \in Handlers :
         (handler[h].pc \in {"idle", "done"} /\ handler'[h] # handler[h]) =>
            LET q == handler'[h].email
                found == handler'[h].load
            IN  /\ found.id # 0 =>
                      /\ found.id \in 1..Len(loads)
                      /\ found = loads[found.id]
                      /\ ~found.is_complete
                /\ NoCandidate(loads, q) =>
                      /\ found.id = 0
                      /\ handler'[h].pc = "done"
                      /\ ~handler'[h].result.success
                      /\ loads' = loads]_vars

\* a follow-up that carries the token and the sender of a stored load, found
\* nothing because that load is complete, and ended unsuccessful
C11_Witness ==
    \E h \in Handlers :
       /\ handler[h].pc = "done"
       /\ handler[h].result.reason = "no_incomplete_load"
       /\ Len(loads) > 0
       /\ handler[h].email.thread_id = loads[1].thread_id
       /\ handler[h].email.from = loads[1].shipper_email
       /\ loads[1].is_complete

MergeAs(r, new_data, email_message_id) ==
    LET ud == update_data(r, new_data, email_message_id)
    IN  IF ud.raised THEN r ELSE ApplyUpdate(r, ud)

\* handlers h and g have both merged into the same load
BothMerged(h, g) ==
    /\ h # g
    /\ handler[h].pc = "done" /\ handler[h].result.success
    /\ handler[g].pc = "done" /\ handler[g].result.success
    /\ handler[h].cur.id = handler[g].cur.id

\* the row both started from: the one the earlier fetch read
RowBefore(h, g) ==
    IF handler[h].cur.follow_up_count <= handler[g].cur.follow_up_count
    THEN handler[h].cur ELSE handler[g].cur

\* the merge of h and then the merge of g, one after the other
OneAfterTheOther(h, g) ==
    MergeAs(MergeAs(RowBefore(h, g), handler[h].data, handler[h].msg),
            handler[g].data, handler[g].msg)

\* C13: when two follow-ups have been merged into the same load, the stored
\* load - field values, missing_fields, is_complete, follow_up_count and
\* conversation log - is what merging them one after the other, in one of
\* the two orders, gives.
C13_FollowUpsSerialized ==
    \A h, g \in Handlers :
       BothMerged(h, g) =>
          \/ loads[handler[h].cur.id] = OneAfterTheOther(h, g)
          \/ loads[handler[h].cur.id] = OneAfterTheOther(g, h)

\* C14: no merge overwrites a non-null value - in every step, each required
\* field of a stored load that held a non-null value holds the same value
\* afterwards.
C14_NoOverwrite ==
    [][\A k \in 1..Len(loads) : \A f \in RequiredSet :
          loads[k].cols[f] # None => loads'[k].cols[f] = loads[k].cols[f]]_vars

\* the extraction raises: the LLM call or json.loads does, or the cleaning
\* of a value asked for
ExtractionFails(llm, missing_fields) ==
    \/ ~llm.ok
    \/ \E f \in DOMAIN llm.json :
          /\ f \in Range(missing_fields)
          /\ llm.json[f] # None
          /\ CleanRaises(f, llm.json[f])

\* C15: a failed extraction gives the handler nothing to merge - for every
\* stored load and every reply on which the extraction raises the result
\* is empty - and a handler whose extraction gave nothing ends unsuccessful
\* in a step that leaves every load as it is; a handler goes on to the
\* merge only with a non-empty result.
C15_FailedExtractionLeavesLoad ==
    /\ [](\A r \in Rows : \A llm \in FollowUpReplies :
             ExtractionFails(llm, r.missing_fields) =>
                extract_missing_information(llm, r.missing_fields) = EmptyDict)
    /\ [][\A h \in Handlers :
             (handler[h].pc = "resolved" /\ handler'[h].pc # "resolved") =>
                /\ loads' = loads
                /\ IF handler'[h].pc = "extracted"
                   THEN DOMAIN handler'[h].data # {}
                   ELSE /\ handler'[h].pc = "done"
                        /\ ~handler'[h].result.success]_vars

\* a handler ended on an extraction that gave nothing, and the load it had
\* resolved is as it was saved
C15_Witness ==
    \E h \in Handlers :
       /\ handler[h].pc = "done"
       /\ handler[h].result.reason = "no_extraction"
       /\ loads[handler[h].load.id] = handler[h].load
       /\ handler[h].load.follow_up_count = 1

\* C16: an intake run that returns normally to its caller (no exception
\* leaves agent.invoke) has stored its load, complete or incomplete.
C16_IntakeStoresOrFails ==
    intake.pc = "done" => Len(loads) > 0

\* C17: every merge that leaves its load with missing fields sends one
\* request e-mail for exactly those fields, adds one to follow_up_count
\* and ends the conversation log with an outbound event.
C17_MergeRequestsRest ==
    [][\A k \in 1..Len(loads) :
          (loads'[k] # loads[k] /\ ~loads'[k].is_complete) =>
             LET log == loads'[k].email_conversation
             IN  /\ Len(outbox') = Len(outbox) + 1
                 /\ outbox'[Len(outbox')].fields = loads'[k].missing_fields
                 /\ loads'[k].follow_up_count
                       = loads[k].follow_up_count + 1
                 /\ log[Len(log)].direction = "outbound"]_vars

\* C18: for every request e-mail ask_more has sent, a stored load has in
\* its conversation log an outbound missing_info_request event with that
\* e-mail's message id and, as fields_requested, the fields the e-mail
\* asked for.
C18_SentRequestIsRecorded ==
    \A m \in 1..Len(outbox) :
       \E r \in Rows : \E e \in Range(r.email_conversation) :
          /\ e.direction = "outbound"
          /\ e.type = "missing_info_request"
          /\ e.message_id = outbox[m].message_id
          /\ e.fields = outbox[m].fields

\* C19: a handler that ended on a failed extraction had called the
\* extraction more than once, and the load it had resolved has been marked:
\* it is no longer the row the handler found.
C19_ExtractionRetriedThenMarked ==
    \A h \in Handlers :
       (handler[h].pc = "done" /\ handler[h].result.reason = "no_extraction")
          => /\ handler[h].attempts > 1
             /\ loads[handler[h].load.id] # handler[h].load

\* the position of a required field in REQUIRED
RequiredIndex(f) == CHOOSE i \in 1..Len(REQUIRED) : REQUIRED[i] = f

\* a required field that the extracted field map lacks or holds falsy
AbsentOrFalsy(d, f) ==
    \/ f \notin DOMAIN d
    \/ d[f] = None
    \/ d[f] = IntV(0)
    \/ d[f] = StrV("")

Merging(h) == handler[h].pc \in {"fetched", "done"} /\ handler[h].cur.id # 0

\* C37: every stored load with is_complete = true has a truthy value in
\* every required field, and whenever update_incomplete_load counts all
\* fields present, the fetched row merged with the reply has one too.
C37_CompleteMeansTruthy ==
    /\ \A r \in Rows :
         r.is_complete => \A f \in RequiredSet : Truthy(r.cols[f])
    /\ \A h \in Handlers :
         Merging(h) =>
           LET upd == updated_fields(handler[h].data)
           IN  all_fields_present(handler[h].cur, upd) =>
                 \A f \in RequiredSet :
                   Truthy(Get(DictMerge(handler[h].cur.cols, upd), f))

UpdateFailed(h) ==
    /\ handler[h].pc = "fetched"
    /\ handler'[h].pc = "done"
    /\ ~handler'[h].result.success

\* C39: a step in which update_incomplete_load returns (False, error)
\* leaves every stored load as it was, in every column.
C39_FailedUpdateChangesNothing ==
    [][\A h \in Handlers : UpdateFailed(h) => loads' = loads]_vars

\* one handler's update raised and the other's write was refused, and the
\* stored row has the follow_up_count and the conversation it was saved with
C39_Witness ==
    \E h \in Handlers, g \in Handlers :
      /\ handler[h].pc = "done"
      /\ handler[h].result.reason = "update_raised"
      /\ handler[g].pc = "done"
      /\ handler[g].result.reason = "update_rejected"
      /\ loads[handler[h].cur.id].follow_up_count = 1
      /\ Len(loads[handler[h].cur.id].email_conversation) = 1

(***************************************************************************)
(* SpecAmbiguous: the follow-up handlers on a table that earlier intake    *)
(* runs left with two incomplete loads of the same shipper.                *)
(***************************************************************************)
\* the state of an intake run after classify that routes to ask_more: the
\* destination is missing and the text matches no complexity keyword
AskMoreIntakes ==
    {[pc |-> "classified", load |-> d,
      flags |-> detect_freight_complexity([kw |-> {}, zips |-> 1], d),
      review |-> requires_human_review(
                    detect_freight_complexity([kw |-> {}, zips |-> 1], d)),
      missing |-> missing(d), outcome |-> "none"] :
        d \in {e \in IntakeExtractions :
                 ~EquipmentRaises(e) /\ "dest_zip" \notin DOMAIN e}}

InitAmbiguous ==
    /\ \E a \in AskMoreIntakes, b \in AskMoreIntakes :
         loads = <<IncompleteRow(1, a, a.missing, MsgId("request", 1)),
                   IncompleteRow(2, b, b.missing, MsgId("request", 2))>>
    /\ intake = IntakeIdle
    /\ handler = [h \in Handlers |-> HandlerIdle]
    /\ followUps = 0
    /\ outbox = <<>>
    /\ BlastUnused
    /\ ResolveUnused
    /\ ScoringUnused

NextAmbiguous ==
    \/ \E h \in Handlers : HandleResolve(h)
    \/ \E h \in Handlers : HandleExtract(h)
    \/ \E h \in Handlers : UpdateFetch(h)
    \/ \E h \in Handlers : UpdateWrite(h)

SpecAmbiguous == InitAmbiguous /\ [][NextAmbiguous]_vars

\* the sender's incomplete loads, in creation order
IncompleteOf(shipper_email) ==
    SelectSeq(loads, LAMBDA r : r.shipper_email = shipper_email
                                  /\ ~r.is_complete)

\* a follow-up that only the sender identifies: no incomplete load of its
\* thread, several incomplete loads of the sender, none named in the subject
Ambiguous(q) ==
    /\ \A i \in 1..Len(loads) :
         ~(q.thread_id # 0 /\ loads[i].thread_id = q.thread_id
           /\ ~loads[i].is_complete)
    /\ Len(IncompleteOf(q.from)) > 1
    /\ \A r \in Range(IncompleteOf(q.from)) : r.load_number \notin q.subject

\* the handler looked a load up for its e-mail
LookedUp(h) ==
    /\ handler[h].pc # "idle"
    /\ handler[h].result.reason # "not_missing_info_response"

\* C36: for a follow-up that only the sender identifies, the handler works
\* on the most recently created incomplete load of the sender, and when it
\* has merged the reply that load's conversation log holds an
\* ambiguous-match event.
C36_AmbiguousNewestAndLogged ==
    \A h \in Handlers :
      (LookedUp(h) /\ Ambiguous(handler[h].email)) =>
        LET mine == IncompleteOf(handler[h].email.from)
            newest == mine[Len(mine)]
        IN  /\ handler[h].load.id = newest.id
            /\ (handler[h].pc = "done" /\ handler[h].result.success) =>
                 \E e \in Range(loads[newest.id].email_conversation) :
                   e.type = "ambiguous_match"

(***************************************************************************)
(* The load lookup of handle_missing_info_response on a loads table with   *)
(* many rows.  Rows carry the columns the two lookups read; they are       *)
(* written by every intake path, so several loads can share a provider     *)
(* thread id (services/email/intake.py stores the mail thread's id).       *)
(***************************************************************************)
\* bound of the model: rows in the loads table
MaxTableRows == 6

\* the rows inserted: sender, completeness, thread id
ResolveRowKinds ==
    { [shipper_email |-> ShipperEmail, is_complete |-> FALSE, thread_id |-> 1],
      [shipper_email |-> ShipperEmail, is_complete |-> FALSE, thread_id |-> 2],
      [shipper_email |-> ShipperEmail, is_complete |-> TRUE,  thread_id |-> 1],
      [shipper_email |-> OtherEmail,   is_complete |-> FALSE, thread_id |-> 2] }

\* the follow-ups looked up: thread id 0 is the empty one; the subject is
\* the set of load numbers it contains, here those of the two oldest loads
ResolveQueries ==
    { [thread_id |-> t, from |-> e, subject |-> sub] :
        t \in 0..2, e \in {ShipperEmail, OtherEmail},
        sub \in SUBSET {1, 2} }

\* a load is created; its load number is unique to it
InsertLoad ==
    /\ Len(loads) < MaxTableRows
    /\ \E k \in ResolveRowKinds :
         loads' = Append(loads, [id |-> Len(loads) + 1,
                                 load_number |-> Len(loads) + 1,
                                 shipper_email |-> k.shipper_email,
                                 is_complete |-> k.is_complete,
                                 thread_id |-> k.thread_id])
    /\ rquery' = NoQuery
    /\ rresult' = NoRow
    /\ UNCHANGED <<intake, handler, followUps, outbox, varsBlast, varsScoring>>

\* step 2 of handle_missing_info_response for one follow-up
Resolve ==
    /\ \E q \in ResolveQueries :
         /\ rquery' = q
         /\ rresult' = FindIncompleteLoad(loads, q)
    /\ UNCHANGED <<loads, intake, handler, followUps, outbox, varsBlast, varsScoring>>

InitResolve ==
    /\ loads = <<>>
    /\ intake = IntakeIdle
    /\ handler = [h \in Handlers |-> HandlerIdle]
    /\ followUps = 0
    /\ outbox = <<>>
    /\ BlastUnused
    /\ rquery = NoQuery
    /\ rresult = NoRow
    /\ ScoringUnused

NextResolve ==
    \/ InsertLoad
    \/ Resolve

SpecResolve == InitResolve /\ [][NextResolve]_vars

Resolved == rquery.from # ""

\* the sender's incomplete loads, newest first
SenderIncomplete ==
    SelectSeq(NewestFirst(loads, Len(loads)),
              LAMBDA r : r.shipper_email = rquery.from /\ ~r.is_complete)

TokenMatch ==
    /\ rquery.thread_id # 0
    /\ \E i \in 1..Len(loads) :
         loads[i].thread_id = rquery.thread_id /\ ~loads[i].is_complete

InSubject(r) == r.load_number \in rquery.subject

Runs == {"r1", "r2"}

NoCarrier == ""

\* what find_suitable_carriers can return, preferred carrier first
CarrierLists == {<<>>, <<"c1">>, <<"c1", "c2">>}

\* the preference_tier column of the carriers the query returns, which it
\* orders by preference_tier.asc
preference_tier(carrier) == IF carrier = "c1" THEN 1 ELSE 2

\* time.sleep(2) after an e-mail that was sent and is not the last one
StaggerSeconds == 2

\* the load a run is started for
BlastLoadId == 1

\* the stored loads LoadBlast is run on: the columns its nodes read
BlastLoads ==
    { [id |-> BlastLoadId, status |-> "NEW_RFQ", is_complete |-> c,
       complexity_flags |-> fl,
       requires_human_review |-> requires_human_review(fl),
       post_to_dat |-> d] :
        c \in BOOLEAN, fl \in {<<>>, <<"HAZMAT">>}, d \in BOOLEAN }

\* the state main() invokes the agent with, and the run's bookkeeping:
\* seq is the order in which runs started, blocked what fetch_load refused
\* the load for, i / sent / errs the locals of send_carrier_emails' loop,
\* slept the seconds the loop slept since its previous iteration began
RunIdle ==
    [pc |-> "idle", seq |-> 0, blocked |-> "", i |-> 0,
     sent |-> <<>>, errs |-> <<>>, slept |-> 0,
     load_data |-> EmptyDict, selected_carriers |-> <<>>,
     email_content |-> EmptyDict, sent_emails |-> <<>>,
     dat_posted |-> FALSE, errors |-> <<>>]

InProgress(r) == run[r].pc \notin {"idle", "done", "failed"}

\* a node's returned dict written into the state
StateUpdate(st, upd) ==
    [k \in DOMAIN st |-> IF k \in DOMAIN upd THEN upd[k] ELSE st[k]]

\* requests.get on loads?id=eq.<load_id>: the row, or None
get_load_from_db(table, load_id) ==
    LET hit == SelectSeq(table, LAMBDA row : row.id = load_id)
    IN  IF Len(hit) > 0 THEN hit[1] ELSE NoRow

\* fetch_load without its completeness and complexity checks
fetch_load_unchecked(load_data) ==
    IF load_data.id = 0 THEN [errors |-> <<"not found">>]
    ELSE IF load_data.status # "NEW_RFQ" THEN [errors |-> <<"has status">>]
    ELSE [load_data |-> load_data]

\* the dict fetch_load returns for what get_load_from_db gave it; an error
\* is modelled by the phrase of its message that summarize_results tests
fetch_load_returns(load_data) ==
    IF load_data.id = 0 THEN [errors |-> <<"not found">>]
    ELSE IF load_data.status # "NEW_RFQ" THEN [errors |-> <<"has status">>]
    ELSE IF ~GetOr(load_data, "is_complete", TRUE)
    THEN [errors |-> <<"is incomplete">>]
    ELSE IF GetOr(load_data, "requires_human_review", FALSE)
    THEN [errors |-> <<"requires human review">>]
    ELSE [load_data |-> load_data]

\* record_blast_activity: the row its POST inserts; created is the order
\* stamp of the run that wrote it
BlastRecord(load_id, carrier_id, blast_type, blast_status, created) ==
    [load_id |-> load_id, carrier_id |-> carrier_id,
     blast_type |-> blast_type, blast_status |-> blast_status,
     created |-> created]

\* record_blast_activity swallows a failed POST
record_blast_activity(table, rec, posted) ==
    IF posted THEN Append(table, rec) ELSE table

\* requests.patch on loads?id=eq.<id> with {"status": status}
PatchStatus(table, id, status) ==
    [k \in DOMAIN table |->
       IF table[k].id = id THEN [table[k] EXCEPT !.status = status]
       ELSE table[k]]

\* main(): agent.invoke with the initial state
StartRun(r) ==
    /\ run[r].pc = "idle"
    /\ run' = [run EXCEPT ![r] =
                 [RunIdle EXCEPT !.pc = "fetch_load",
                    !.seq = 1 + Cardinality({o \in Runs : run[o].seq > 0})]]
    /\ overlap' = (overlap \/ \E o \in Runs \ {r} : InProgress(o))
    /\ UNCHANGED <<loads, load_blasts, carrierMail, intake, handler,
                   followUps, outbox, varsResolve, varsScoring>>

fetch_load(r) ==
    /\ run[r].pc = "fetch_load"
    /\ \E answered \in BOOLEAN :
         LET load_data == IF answered
                          THEN get_load_from_db(loads, BlastLoadId)
                          ELSE NoRow
             ret == fetch_load_returns(load_data)
         IN  run' = [run EXCEPT ![r] =
                       [StateUpdate(run[r], ret) EXCEPT
                          !.pc = "select_carriers",
                          !.blocked = IF "errors" \in DOMAIN ret
                                      THEN ret.errors[1] ELSE ""]]
    /\ UNCHANGED <<loads, load_blasts, carrierMail, overlap, intake, handler,
                   followUps, outbox, varsResolve, varsScoring>>

\* load_data.get('post_to_carriers', True) is true on every load: no
\* writer of the table sets the column
select_carriers(r) ==
    /\ run[r].pc = "select_carriers"
    /\ \E carriers \in CarrierLists :
         LET ret == IF Len(carriers) = 0
                    THEN [selected_carriers |-> <<>>,
                          errors |-> <<"no suitable carriers">>]
                    ELSE [selected_carriers |-> carriers]
         IN  run' = [run EXCEPT ![r] =
                       [StateUpdate(run[r], ret) EXCEPT
                          !.pc = "generate_email_content"]]
    /\ UNCHANGED <<loads, load_blasts, carrierMail, overlap, intake, handler,
                   followUps, outbox, varsResolve, varsScoring>>

\* the LLM's reply: JSON with subject and body, JSON without a subject, or
\* a reply that json.loads rejects
generate_email_content(r) ==
    /\ run[r].pc = "generate_email_content"
    /\ \E reply \in {"json", "no_subject", "raised"} :
         LET ret == CASE reply = "json" ->
                           [email_content |-> [subject |-> "s", body |-> "b"]]
                      [] reply = "no_subject" ->
                           [email_content |-> [body |-> "b"]]
                      [] OTHER ->
                           [errors |-> <<"error generating email content">>]
         IN  run' = [run EXCEPT ![r] =
                       [StateUpdate(run[r], ret) EXCEPT
                          !.pc = "send_carrier_emails", !.i = 1]]
    /\ UNCHANGED <<loads, load_blasts, carrierMail, overlap, intake, handler,
                   followUps, outbox, varsResolve, varsScoring>>

\* the return of send_carrier_emails once its loop is over
SendReturn(st, sent, errs) ==
    [StateUpdate(st, [sent_emails |-> sent, errors |-> errs]) EXCEPT
       !.pc = "post_to_dat", !.sent = <<>>, !.errs = <<>>, !.i = 0,
       !.slept = 0]

\* one iteration of the loop of send_carrier_emails, the last one together
\* with the node's return.  An e-mail handed to Resend is kept with the run
\* that sent it (created), the carrier's place in selected_carriers (pos),
\* the seconds the loop slept since the previous carrier (waited) and the
\* status the loads table held for the load at that moment (stored).
send_carrier_emails(r) ==
    LET st == run[r]
        carriers == st.selected_carriers
    IN
    /\ st.pc = "send_carrier_emails"
    /\ IF Len(carriers) = 0
       THEN /\ run' = [run EXCEPT ![r] =
                         [StateUpdate(st, [sent_emails |-> <<>>]) EXCEPT
                            !.pc = "post_to_dat", !.i = 0]]
            /\ UNCHANGED <<load_blasts, carrierMail, varsScoring>>
       ELSE LET carrier == carriers[st.i]
                last == st.i = Len(carriers)
                \* email_content['subject'], email_content['body'],
                \* load_data['id'], load_data['load_number']
                keyError == \/ "subject" \notin DOMAIN st.email_content
                            \/ "id" \notin DOMAIN st.load_data
                After(sent, errs, slept) ==
                    IF last THEN SendReturn(st, sent, errs)
                    ELSE [st EXCEPT !.i = st.i + 1, !.sent = sent,
                                    !.errs = errs, !.slept = slept]
            IN  \E delivered \in BOOLEAN, posted \in BOOLEAN :
                  IF keyError \/ ~delivered
                  THEN \* the except branch: load_data['id'] once more
                       IF "id" \notin DOMAIN st.load_data
                       THEN /\ run' = [run EXCEPT ![r].pc = "failed"]
                            /\ UNCHANGED <<load_blasts, carrierMail, varsScoring>>
                       ELSE /\ load_blasts' = record_blast_activity(
                                  load_blasts,
                                  BlastRecord(st.load_data.id, carrier,
                                              "EMAIL", "FAILED", st.seq),
                                  posted)
                            /\ run' = [run EXCEPT ![r] =
                                  After(st.sent,
                                        Append(st.errs,
                                               "failed to send email"),
                                        0)]
                            /\ UNCHANGED carrierMail
                  ELSE /\ carrierMail' = Append(carrierMail,
                              [to |-> carrier, load_id |-> st.load_data.id,
                               created |-> st.seq, pos |-> st.i,
                               waited |-> st.slept,
                               stored |-> get_load_from_db(
                                             loads, st.load_data.id).status])
                       /\ load_blasts' = record_blast_activity(
                              load_blasts,
                              BlastRecord(st.load_data.id, carrier,
                                          "EMAIL", "SENT", st.seq),
                              posted)
                       /\ run' = [run EXCEPT ![r] =
                              After(Append(st.sent, carrier), st.errs,
                                    StaggerSeconds)]
    /\ UNCHANGED <<loads, overlap, intake, handler, followUps, outbox,
                   varsResolve, varsScoring>>

post_to_dat(r) ==
    LET st == run[r] IN
    /\ st.pc = "post_to_dat"
    /\ IF ~GetOr(st.load_data, "post_to_dat", FALSE)
       THEN /\ run' = [run EXCEPT ![r] =
                         [StateUpdate(st, [dat_posted |-> FALSE]) EXCEPT
                            !.pc = "summarize_results"]]
            /\ UNCHANGED load_blasts
       ELSE \E posted \in BOOLEAN :
              /\ load_blasts' = record_blast_activity(
                     load_blasts,
                     BlastRecord(st.load_data.id, NoCarrier, "DAT_POST",
                                 "SENT", st.seq),
                     posted)
              /\ run' = [run EXCEPT ![r] =
                           [StateUpdate(st, [dat_posted |-> TRUE]) EXCEPT
                              !.pc = "summarize_results"]]
    /\ UNCHANGED <<loads, carrierMail, overlap, intake, handler, followUps,
                   outbox, varsResolve, varsScoring>>

\* the status summarize_results writes, "" when it writes none
SummaryStatus(errors) ==
    IF "is incomplete" \in Range(errors) THEN ""
    ELSE IF "requires human review" \in Range(errors) THEN "NEEDS_REVIEW"
    ELSE "BLASTED"

\* the PATCH addresses load_data.get('id'): no row when load_data is {}
summarize_results(r) ==
    LET st == run[r]
        status == SummaryStatus(st.errors)
    IN
    /\ st.pc = "summarize_results"
    /\ \E patched \in BOOLEAN :
         loads' = IF status # "" /\ patched
                  THEN PatchStatus(loads, GetOr(st.load_data, "id", 0),
                                   status)
                  ELSE loads
    /\ run' = [run EXCEPT ![r].pc = "done"]
    /\ UNCHANGED <<load_blasts, carrierMail, overlap, intake, handler,
                   followUps, outbox, varsResolve, varsScoring>>

InitBlast ==
    /\ \E row \in BlastLoads : loads = <<row>>
    /\ intake = IntakeIdle
    /\ handler = [h \in Handlers |-> HandlerIdle]
    /\ followUps = 0
    /\ outbox = <<>>
    /\ load_blasts = <<>>
    /\ carrierMail = <<>>
    /\ run = [r \in Runs |-> RunIdle]
    /\ overlap = FALSE
    /\ ResolveUnused
    /\ ScoringUnused

NextBlast ==
    \/ \E r \in Runs : StartRun(r)
    \/ \E r \in Runs : fetch_load(r)
    \/ \E r \in Runs : select_carriers(r)
    \/ \E r \in Runs : generate_email_content(r)
    \/ \E r \in Runs : send_carrier_emails(r)
    \/ \E r \in Runs : post_to_dat(r)
    \/ \E r \in Runs : summarize_results(r)

SpecBlast == InitBlast /\ [][NextBlast]_vars

Ended(r) == run[r].pc \in {"done", "failed"}

SentRecords ==
    {k \in 1..Len(load_blasts) :
       /\ load_blasts[k].blast_status \in {"SENT", "DELIVERED"}
       /\ load_blasts[k].carrier_id # NoCarrier}

\* C2: while the stored load is incomplete or requires human review, no
\* LoadBlast run sends a carrier e-mail for it and none creates a
\* load_blasts record with status SENT for it.
C2_BlockedLoadNeverSent ==
    \A k \in 1..Len(loads) :
      (~loads[k].is_complete \/ loads[k].requires_human_review) =>
        /\ \A m \in 1..Len(carrierMail) : carrierMail[m].load_id # loads[k].id
        /\ \A b \in 1..Len(load_blasts) :
             load_blasts[b].load_id = loads[k].id
               => load_blasts[b].blast_status # "SENT"

\* a run on a blocked load that was offered carriers and e-mail content and
\* has ended
C2_Witness ==
    \E r \in Runs :
      /\ Ended(r)
      /\ run[r].blocked \in {"is incomplete", "requires human review"}
      /\ Len(run[r].selected_carriers) > 0
      /\ "subject" \in DOMAIN run[r].email_content

\* C3: when two LoadBlast runs of the same load overlap, no two load_blasts
\* records with status SENT or DELIVERED exist for the same load and
\* carrier.
C3_ConcurrentNoDuplicateSent ==
    overlap =>
      \A a \in SentRecords, b \in SentRecords :
        (/\ a # b
         /\ load_blasts[a].load_id = load_blasts[b].load_id)
        => load_blasts[a].carrier_id # load_blasts[b].carrier_id

\* C4: when LoadBlast runs of the same load follow one another, a later run
\* neither e-mails a carrier that an earlier run has a SENT or DELIVERED
\* record for, nor records a new SENT attempt for it.
C4_SequentialNoResend ==
    ~overlap =>
      \A a \in SentRecords :
        /\ \A m \in 1..Len(carrierMail) :
             (/\ carrierMail[m].load_id = load_blasts[a].load_id
              /\ carrierMail[m].to = load_blasts[a].carrier_id)
             => carrierMail[m].created <= load_blasts[a].created
        /\ \A b \in SentRecords :
             (/\ load_blasts[b].load_id = load_blasts[a].load_id
              /\ load_blasts[b].carrier_id = load_blasts[a].carrier_id)
             => load_blasts[b].created <= load_blasts[a].created

\* C8: once a run that fetch_load blocked for human review has ended, the
\* stored status of the load is NEEDS_REVIEW.
C8_BlockedLoadNeedsReview ==
    \A r \in Runs :
      (Ended(r) /\ run[r].blocked = "requires human review") =>
        \A k \in 1..Len(loads) :
          loads[k].id = BlastLoadId => loads[k].status = "NEEDS_REVIEW"

\* the run that was started seq-th
RunOf(seq) == CHOOSE r \in Runs : run[r].seq = seq

\* C31: in a run, no carrier of a later tier is e-mailed before every
\* selected carrier of an earlier tier has had its turn, and when an
\* earlier tier was dispatched before it, the run has waited since that
\* dispatch.
C31_TiersInOrderAfterDelay ==
    \A m \in 1..Len(carrierMail) :
      LET mail == carrierMail[m]
          sel == run[RunOf(mail.created)].selected_carriers
          earlier == {j \in 1..Len(sel) :
                        preference_tier(sel[j]) < preference_tier(mail.to)}
      IN  /\ \A j \in earlier : j < mail.pos
          /\ earlier # {} => mail.waited > 0

\* C32: a run hands a carrier e-mail to Resend only while the loads table
\* still holds the load in the dispatchable status NEW_RFQ.
C32_NoDispatchAfterStatusLeft ==
    \A m \in 1..Len(carrierMail) : carrierMail[m].stored = "NEW_RFQ"

\* a run that fetch_load let through: its state holds the load
Dispatching(r) == "id" \in DOMAIN run[r].load_data

\* send_carrier_emails of the run has returned
SendReturned(r) == run[r].pc \in {"post_to_dat", "summarize_results", "done"}

\* the carriers of the run's list whose turn in the loop is over, and those
\* of them the run e-mailed
TurnOver(r) ==
    IF run[r].pc = "send_carrier_emails" /\ Len(run[r].selected_carriers) > 0
    THEN {run[r].selected_carriers[j] : j \in 1..(run[r].i - 1)}
    ELSE IF SendReturned(r) THEN Range(run[r].selected_carriers)
    ELSE {}

Emailed(r) ==
    {carrierMail[m].to : m \in {k \in 1..Len(carrierMail) :
                                  carrierMail[k].created = run[r].seq}}

RecordsOf(r, carrier, blast_status) ==
    {b \in 1..Len(load_blasts) :
       /\ load_blasts[b].created = run[r].seq
       /\ load_blasts[b].carrier_id = carrier
       /\ load_blasts[b].blast_status = blast_status}

\* C33: in a run that dispatches, a carrier whose delivery failed has a
\* FAILED load_blasts record, the run goes on, and when send_carrier_emails
\* returns every selected carrier is among the sent e-mails or the errors.
C33_FailureRecordedOthersAttempted ==
    \A r \in Runs :
      Dispatching(r) =>
        /\ run[r].pc # "failed"
        /\ \A c \in TurnOver(r) \ Emailed(r) :
             RecordsOf(r, c, "FAILED") # {}
        /\ (SendReturned(r) /\ Len(run[r].selected_carriers) > 0) =>
             Len(run[r].sent_emails) + Len(run[r].errors)
               = Len(run[r].selected_carriers)

\* C34: within one run, a carrier that was e-mailed has exactly one
\* load_blasts record of the run, with status SENT, once its turn is over:
\* none with status FAILED and never an e-mail without a record.
C34_OneSentRecordPerEmail ==
    \A r \in Runs :
      \A c \in TurnOver(r) \cap Emailed(r) :
        /\ Cardinality(RecordsOf(r, c, "SENT")) = 1
        /\ RecordsOf(r, c, "FAILED") = {}

\* C35: when a run recorded a carrier as FAILED and a run that started
\* after it was over has ended, the later run attempted the carrier again
\* (an e-mail or a load_blasts record of its own) or the load was put
\* before the operators with status NEEDS_REVIEW.
C35_FailedRetriedOrEscalated ==
    \A a \in Runs, b \in Runs :
      (~overlap /\ run[a].seq > 0 /\ run[a].seq < run[b].seq /\ Ended(b)) =>
        \A c \in Range(run[a].selected_carriers) :
          RecordsOf(a, c, "FAILED") # {} =>
            \/ c \in Emailed(b)
            \/ RecordsOf(b, c, "SENT") \cup RecordsOf(b, c, "FAILED") # {}
            \/ \E k \in 1..Len(loads) :
                 /\ loads[k].id = BlastLoadId
                 /\ loads[k].status = "NEEDS_REVIEW"

(***************************************************************************)
(* SpecClassify: detect_freight_complexity as a function.  A call either   *)
(* raises or returns the pair (complexity_flags, detailed_analysis).  The  *)
(* analysis string is modelled by what is formatted into it: the flags and *)
(* for each flag whether the text matched and the values read from         *)
(* load_data.                                                              *)
(***************************************************************************)
\* the values of load_data a detector formats into its analysis part
AnalysisData(name, text, d) ==
    LET w == GetOr(d, "weight_lb", IntV(0))
        p == GetOr(d, "pieces", IntV(0))
        e == GetOr(d, "equipment", StrV(""))
    IN  CASE name = "HAZMAT" -> <<GetOr(d, "hazmat", None)>>
          [] name = "OVERSIZE" -> <<w>>
          [] name = "MULTI_STOP" -> <<IntV(text.zips)>>
          [] name = "INTERMODAL" -> <<>>
          [] name = "LTL" -> <<w, p>>
          [] name = "PARTIAL" -> <<w>>
          [] name = "FLATBED" -> <<StrV(Lower(e.s))>>

RECURSIVE AnalysisParts(_, _, _)
AnalysisParts(flags, text, d) ==
    IF flags = <<>> THEN <<>>
    ELSE <<[flag |-> Head(flags), text |-> Head(flags) \in text.kw,
            data |-> AnalysisData(Head(flags), text, d)]>>
         \o AnalysisParts(Tail(flags), text, d)

\* detailed_analysis: no part and no flag stand for "Simple freight load
\* suitable for automation"
detailed_analysis(text, d) ==
    LET complexity_flags == detect_freight_complexity(text, d)
    IN  [count |-> Len(complexity_flags), flags |-> complexity_flags,
         parts |-> AnalysisParts(complexity_flags, text, d)]

Raised == [raised |-> TRUE, flags |-> <<>>,
           analysis |-> [count |-> 0, flags |-> <<>>, parts |-> <<>>]]

\* mutant: the flag list is kept between calls and returned emptied
DetectCallKeepsList(text, d) ==
    IF EquipmentRaises(d) THEN Raised
    ELSE [raised |-> FALSE,
          flags |-> IF cls.returns = <<>>
                    THEN detect_freight_complexity(text, d) ELSE <<>>,
          analysis |-> detailed_analysis(text, d)]

\* one call: the AttributeError of the equipment line leaves the function
\* before its return
DetectCall(text, d) ==
    IF EquipmentRaises(d) THEN Raised
    ELSE [raised |-> FALSE, flags |-> detect_freight_complexity(text, d),
          analysis |-> detailed_analysis(text, d)]

\* bound of the model: the calls made on one input
MaxCalls == 2

ClassifyTexts ==
    {[kw |-> k, zips |-> z] :
        k \in SUBSET {"HAZMAT", "INTERMODAL", "LTL", "FLATBED"},
        z \in {2, 3}}

ClassifyFields ==
    {MkDict([weight_lb |-> w, pieces |-> p, equipment |-> e]) :
        w \in {Absent, IntV(0), IntV(8000), IntV(15000), IntV(25000),
               IntV(80000), IntV(85000), FloatV(85000), FloatV(8000)},
        p \in {Absent, IntV(3), IntV(12)},
        e \in {Absent, None, StrV("Van"), StrV("Flatbed")}}

Detect ==
    /\ Len(cls.returns) < MaxCalls
    /\ cls' = [cls EXCEPT !.returns =
                              Append(@, DetectCall(cls.text, cls.fields))]
    /\ UNCHANGED <<varsIntake, varsBlast, varsResolve, match, tiering>>

InitClassify ==
    /\ loads = <<>>
    /\ intake = IntakeIdle
    /\ handler = [h \in Handlers |-> HandlerIdle]
    /\ followUps = 0
    /\ outbox = <<>>
    /\ BlastUnused
    /\ ResolveUnused
    /\ \E text \in ClassifyTexts, d \in ClassifyFields :
          cls = [text |-> text, fields |-> d, returns |-> <<>>]
    /\ MatchUnused
    /\ TiersUnused

NextClassify == Detect

SpecClassify == InitClassify /\ [][NextClassify]_vars

\* a number, int or float, above a limit
NumAbove(v, limit) == v.ty \in {"int", "float"} /\ v.n > limit

\* a positive number, int or float, below a limit
NumBelow(v, limit) == v.ty \in {"int", "float"} /\ v.n > 0 /\ v.n < limit

\* C22: every call on a load whose weight_lb is above 80,000 returns a flag
\* list that holds OVERSIZE, whatever the text.
C22_OverweightIsOversize ==
    \A i \in 1..Len(cls.returns) :
       NumAbove(GetOr(cls.fields, "weight_lb", IntV(0)), OverweightLb)
          => /\ ~cls.returns[i].raised
             /\ "OVERSIZE" \in Range(cls.returns[i].flags)

\* C23: every call on a load whose weight_lb is below 10,000 or whose piece
\* count is below 10 returns a flag list that holds LTL, whatever the text.
C23_LightOrFewIsLtl ==
    \A i \in 1..Len(cls.returns) :
       (\/ NumBelow(GetOr(cls.fields, "weight_lb", IntV(0)), LtlWeightLb)
        \/ NumBelow(GetOr(cls.fields, "pieces", IntV(0)), LtlPieces))
          => /\ ~cls.returns[i].raised
             /\ "LTL" \in Range(cls.returns[i].flags)

\* C40: every call on a load whose weight_lb is an integer from 1 to 19,999
\* returns a flag list that holds PARTIAL, whatever the text, so that the
\* load requires human review.
C40_LightIntegerIsPartial ==
    \A i \in 1..Len(cls.returns) :
       IntBelow(GetOr(cls.fields, "weight_lb", IntV(0)), PartialWeightLb)
          => /\ ~cls.returns[i].raised
             /\ "PARTIAL" \in Range(cls.returns[i].flags)
             /\ requires_human_review(cls.returns[i].flags)

\* the position of a flag in the detector order
DetectorIndex(name) == CHOOSE i \in 1..Len(DETECTORS) : DETECTORS[i] = name

\* C24: a returned flag list holds only detector names, in strictly
\* increasing detector order, hence no flag twice.
C24_FlagsOrderedNoDuplicate ==
    \A i \in 1..Len(cls.returns) :
       LET complexity_flags == cls.returns[i].flags
       IN  /\ Range(complexity_flags) \subseteq Range(DETECTORS)
           /\ \A a, b \in 1..Len(complexity_flags) :
                 a < b => DetectorIndex(complexity_flags[a])
                             < DetectorIndex(complexity_flags[b])

\* several detectors fired at once, from the text and from the fields
C24_Witness ==
    \E i \in 1..Len(cls.returns) :
       /\ ~cls.returns[i].raised
       /\ Len(cls.returns[i].flags) >= 4
       /\ "LTL" \in Range(cls.returns[i].flags)
       /\ "PARTIAL" \in Range(cls.returns[i].flags)

DateV(days) == [ty |-> "str", n |-> days, s |-> "iso"]

\* zip_code[:3] for the ZIP codes the model uses
ZipPrefix(t) == CASE t = "75201" -> "752"
                  [] t = "30303" -> "303"
                  [] t = "55555" -> "555"
                  [] OTHER -> ""

\* prefix_map.get(zip_prefix), "" for None
PrefixState(prefix) == CASE prefix \in {"750", "751", "752"} -> "TX"
                         [] prefix \in {"300", "301", "303"} -> "GA"
                         [] prefix \in {"331", "332", "333"} -> "FL"
                         [] prefix \in {"100", "101", "102"} -> "NY"
                         [] prefix \in {"900", "901", "902"} -> "CA"
                         [] prefix \in {"600", "601", "602"} -> "IL"
                         [] OTHER -> ""

\* _get_state_from_zip: None for no ZIP code or an unmapped prefix
get_state_from_zip(zip_code) ==
    IF ~Truthy(zip_code) THEN "" ELSE PrefixState(ZipPrefix(zip_code.s))

calculate_lane_score(carrier, load_data) ==
    LET origin_zip == Get(load_data, "origin_zip")
        dest_zip == Get(load_data, "dest_zip")
        origin_state == get_state_from_zip(origin_zip)
        dest_state == get_state_from_zip(dest_zip)
    IN  IF <<origin_zip.s, dest_zip.s>> \in carrier.preferred_lanes THEN 30
        ELSE IF /\ origin_state # ""
                /\ dest_state # ""
                /\ <<origin_state, dest_state>> \in carrier.preferred_lanes
        THEN 20
        ELSE IF origin_state # "" /\ origin_state \in carrier.coverage_areas
        THEN 15
        ELSE IF carrier.operating_area = "national" THEN 10
        ELSE 0

\* compatibility_map.get(required_equipment, [])
compatibility_map(required_equipment) ==
    CASE required_equipment = "van" -> {"dry van", "van"}
      [] required_equipment = "reefer" -> {"refrigerated", "reefer"}
      [] required_equipment = "flatbed" -> {"flatbed", "stepdeck", "rgn"}
      [] required_equipment = "stepdeck" -> {"stepdeck", "flatbed"}
      [] OTHER -> {}

calculate_equipment_score(carrier, load_data) ==
    LET required_equipment ==
            Lower(GetOr(load_data, "equipment", StrV("Van")).s)
        carrier_equipment == carrier.equipment_types
    IN  IF required_equipment \in carrier_equipment THEN 25
        ELSE IF compatibility_map(required_equipment)
                   \cap carrier_equipment # {}
        THEN 15
        ELSE IF Cardinality(carrier_equipment) > 3 THEN 10
        ELSE 0

\* mutant: an excellent safety rating adds 10 points
calculate_performance_score_wide(carrier) ==
    LET safety_rating ==
            GetOr(carrier.metrics, "safety_rating", StrV("satisfactory"))
    IN  IF safety_rating.s = "excellent" THEN 25 ELSE 3

calculate_performance_score(carrier) ==
    LET on_time_pct == GetOr(carrier.metrics, "on_time_pct", IntV(8500)).n
        claims_ratio == GetOr(carrier.metrics, "claims_ratio", IntV(200)).n
        safety_rating ==
            GetOr(carrier.metrics, "safety_rating", StrV("satisfactory")).s
    IN  (IF on_time_pct >= 9500 THEN 10
         ELSE IF on_time_pct >= 9000 THEN 7
         ELSE IF on_time_pct >= 8500 THEN 5
         ELSE 0)
        + (IF claims_ratio <= 100 THEN 5
           ELSE IF claims_ratio <= 200 THEN 3
           ELSE IF claims_ratio <= 500 THEN 1
           ELSE 0)
        + (IF safety_rating = "excellent" THEN 5
           ELSE IF safety_rating = "satisfactory" THEN 3
           ELSE 0)

calculate_price_score(carrier, load_data) ==
    LET typical_margin ==
            GetOr(carrier.metrics, "typical_margin_pct", IntV(1500)).n
    IN  IF typical_margin <= 1000 THEN 15
        ELSE IF typical_margin <= 1500 THEN 10
        ELSE IF typical_margin <= 2000 THEN 5
        ELSE 0

calculate_availability_score(carrier) ==
    LET last_active == Get(carrier.metrics, "last_active_date")
    IN  IF ~Truthy(last_active) THEN 5
        ELSE IF last_active.s # "iso" THEN 5
        ELSE IF last_active.n <= 1 THEN 10
        ELSE IF last_active.n <= 7 THEN 7
        ELSE IF last_active.n <= 30 THEN 3
        ELSE 0

\* _score_carrier: the CarrierScore without its notes
score_carrier(carrier, load_data) ==
    LET lane_score == calculate_lane_score(carrier, load_data)
        equipment_score == calculate_equipment_score(carrier, load_data)
        performance_score == calculate_performance_score(carrier)
        price_score == calculate_price_score(carrier, load_data)
        availability_score == calculate_availability_score(carrier)
    IN  [carrier_id |-> carrier.id,
         total_score |-> lane_score + equipment_score + performance_score
                            + price_score + availability_score,
         lane_score |-> lane_score,
         equipment_score |-> equipment_score,
         performance_score |-> performance_score,
         price_score |-> price_score,
         availability_score |-> availability_score]

\* _get_active_carriers: the rows with status 'active' in the order the
\* store returns them; [] when the query raises
get_active_carriers(table, query_ok) ==
    IF query_ok THEN SelectSeq(table, LAMBDA c : c.status = "active")
    ELSE <<>>

\* the scores of the carriers in the loop's order
RECURSIVE ScoreAll(_, _)
ScoreAll(carriers, load_data) ==
    IF carriers = <<>> THEN <<>>
    ELSE <<score_carrier(Head(carriers), load_data)>>
         \o ScoreAll(Tail(carriers), load_data)

\* list.sort(key=total_score, reverse=True): stable, so equal totals keep
\* the order they had; InsertDesc puts x behind every score not below it
RECURSIVE InsertDesc(_, _)
InsertDesc(sorted, x) ==
    IF sorted = <<>> THEN <<x>>
    ELSE IF Head(sorted).total_score >= x.total_score
    THEN <<Head(sorted)>> \o InsertDesc(Tail(sorted), x)
    ELSE <<x>> \o sorted

RECURSIVE SortDesc(_)
SortDesc(scores) ==
    IF scores = <<>> THEN <<>>
    ELSE InsertDesc(SortDesc(SubSeq(scores, 1, Len(scores) - 1)),
                    scores[Len(scores)])

\* mutant: carriers with a total of 0 stay in the list
match_carriers_for_load_all(carriers, load_data) ==
    SortDesc(ScoreAll(carriers, load_data))

match_carriers_for_load(carriers, load_data) ==
    SortDesc(SelectSeq(ScoreAll(carriers, load_data),
                       LAMBDA score : score.total_score > 0))

TIERS == <<"tier_1", "tier_2", "tier_3", "tier_4">>

max_per_tier == [tier_1 |-> 10, tier_2 |-> 15, tier_3 |-> 20, tier_4 |-> 25]

\* the tier the if-chain of get_carrier_tiers appends a score to
TierOf(total_score) ==
    IF total_score >= 80 THEN "tier_1"
    ELSE IF total_score >= 60 THEN "tier_2"
    ELSE IF total_score >= 40 THEN "tier_3"
    ELSE "tier_4"

\* tiers[tier][:max_count]
Truncate(q, max_count) ==
    SubSeq(q, 1, IF Len(q) < max_count THEN Len(q) ELSE max_count)

\* mutant: the tiers are returned without the size limit
get_carrier_tiers_uncapped(scored_carriers) ==
    [tier \in Range(TIERS) |->
        SelectSeq(scored_carriers,
                  LAMBDA carrier : TierOf(carrier.total_score) = tier)]

get_carrier_tiers(scored_carriers) ==
    [tier \in Range(TIERS) |->
        Truncate(SelectSeq(scored_carriers,
                           LAMBDA carrier :
                              TierOf(carrier.total_score) = tier),
                 max_per_tier[tier])]

(***************************************************************************)
(* SpecMatch: one run of src/agents/intake/enhanced_graph.py.  The graph   *)
(* is parse -> extract -> (match_carriers -> save | request_info) ->       *)
(* complete.  The carriers table is the record store's; its rows carry     *)
(* every column the scorer indexes.                                        *)
(***************************************************************************)
Carrier(id, status, lanes, coverage, area, equipment, metrics) ==
    [id |-> id, status |-> status, preferred_lanes |-> lanes,
     coverage_areas |-> coverage, operating_area |-> area,
     equipment_types |-> equipment, metrics |-> MkDict(metrics)]

\* the carrier of the spec's example: exact lane, exact equipment, 97%
\* on-time, 0.5% claims, excellent safety, 8% margin, active today
IdealMetrics ==
    [on_time_pct |-> IntV(9700), claims_ratio |-> IntV(50),
     safety_rating |-> StrV("excellent"), typical_margin_pct |-> IntV(800),
     last_active_date |-> DateV(0)]

NoMetrics ==
    [on_time_pct |-> Absent, claims_ratio |-> Absent,
     safety_rating |-> Absent, typical_margin_pct |-> Absent,
     last_active_date |-> Absent]

CarrierRows ==
    {Carrier("c1", "active", {<<"75201", "30303">>}, {}, "regional",
             {"van"}, IdealMetrics),
     Carrier("c2", "active", {}, {}, "regional", {"reefer"},
             [on_time_pct |-> IntV(8000), claims_ratio |-> IntV(600),
              safety_rating |-> StrV("conditional"),
              typical_margin_pct |-> IntV(2500),
              last_active_date |-> DateV(45)]),
     Carrier("c3", "active", {<<"TX", "GA">>}, {}, "regional", {"tanker"},
             NoMetrics),
     Carrier("c4", "active", {}, {"TX"}, "regional", {"dry van"},
             [on_time_pct |-> IntV(9200), claims_ratio |-> IntV(150),
              safety_rating |-> StrV("satisfactory"),
              typical_margin_pct |-> IntV(1800),
              last_active_date |-> DateV(5)]),
     Carrier("c5", "active", {}, {}, "national",
             {"flatbed", "reefer", "tanker", "rgn"},
             [on_time_pct |-> IntV(9700), claims_ratio |-> IntV(50),
              safety_rating |-> StrV("excellent"),
              typical_margin_pct |-> IntV(1200),
              last_active_date |-> StrV("unknown")]),
     Carrier("c6", "inactive", {<<"75201", "30303">>}, {}, "national",
             {"van"}, IdealMetrics)}

\* bound of the model: the rows of the carriers table
MaxCarriers == 3

\* the orders in which the store may return its rows
CarrierTables ==
    {t \in UNION {[1..n -> CarrierRows] : n \in 0..MaxCarriers} :
        \A i, j \in 1..Len(t) : i # j => t[i].id # t[j].id}

\* re.search(r'\d{5}', zip_str).group()
Zip5(t) == CASE t = "TX 75201" -> "75201"
             [] OTHER -> t

\* equipment_map.get(equipment_lower, data['equipment'])
equipment_map(t) ==
    CASE Lower(t) \in {"dry van", "dryvan", "van"} -> "Van"
      [] Lower(t) \in {"reefer", "refrigerated"} -> "Reefer"
      [] Lower(t) \in {"flatbed", "flat"} -> "Flatbed"
      [] Lower(t) \in {"step deck", "stepdeck"} -> "Stepdeck"
      [] Lower(t) \in {"rgn", "lowboy"} -> "RGN"
      [] OTHER -> t

\* int(re.search(r'[\d,]+', str(weight)).group().replace(',', ''))
WeightNumber(v) == IF v.ty = "str" THEN IntV(DigitsOf(v.s)) ELSE v

\* f"{pickup_dt}T08:00:00" when the value has no 'T'
WithTime(t) == CASE t = "2025-01-15" -> "2025-01-15T08:00:00"
                 [] OTHER -> t

validate_extracted_data(data) ==
    [k \in DOMAIN data |->
        IF ~Truthy(data[k]) THEN data[k]
        ELSE CASE k \in {"origin_zip", "dest_zip"} -> StrV(Zip5(data[k].s))
               [] k = "equipment" -> StrV(equipment_map(data[k].s))
               [] k = "weight_lb" -> WeightNumber(data[k])
               [] k = "pickup_dt" -> StrV(WithTime(data[k].s))
               [] OTHER -> data[k]]

EnhancedExtractions ==
    {MkDict([origin_zip |-> oz, dest_zip |-> dz,
             pickup_dt |-> StrV("2025-01-15"), equipment |-> eq,
             weight_lb |-> w]) :
        oz \in {StrV("75201"), StrV("TX 75201"), StrV("55555")},
        dz \in {Absent, StrV("30303")},
        eq \in {None, StrV("dry van"), StrV("Flatbed")},
        w \in {IntV(25000), IntV(85000), StrV("8,000 lbs")}}

max_retries == 3

MatchIdle ==
    [pc |-> "start", table |-> <<>>, raw_text |-> [kw |-> {}, zips |-> 0],
     load |-> EmptyDict, missing |-> <<>>, error_log |-> <<>>,
     invoked |-> FALSE, query_ok |-> FALSE, carriers |-> <<>>,
     scores |-> <<>>, scored_carriers |-> <<>>,
     tiers |-> [tier \in Range(TIERS) |-> <<>>],
     carrier_matches |-> <<>>, posts |-> 0, load_id |-> 0,
     outcome |-> "none"]

\* parse_node: the e-mail file becomes raw_text
parse_node ==
    /\ match.pc = "start"
    /\ \E text \in IntakeTexts :
          match' = [match EXCEPT !.pc = "parsed", !.raw_text = text]
    /\ UNCHANGED <<varsIntake, varsBlast, varsResolve, cls, tiering>>

\* extract_node: extract_load_data; any exception gives the empty load with
\* every required field missing and an error_log entry
extract_node ==
    /\ match.pc = "parsed"
    /\ \/ \E data \in EnhancedExtractions :
             LET extracted == validate_extracted_data(data)
             IN  match' = [match EXCEPT !.pc = "extracted",
                                        !.load = extracted,
                                        !.missing = missing(extracted)]
       \/ match' = [match EXCEPT !.pc = "extracted",
                                 !.load = EmptyDict,
                                 !.missing = REQUIRED,
                                 !.error_log = <<"extraction">>]
    /\ UNCHANGED <<varsIntake, varsBlast, varsResolve, cls, tiering>>

route_after_extract(st) ==
    IF st.missing # <<>> THEN "request_info" ELSE "match_carriers"

\* the carrier_matches list: the tiers in tier order, each entry with its
\* tier name
RECURSIVE FlattenTiers(_, _)
FlattenTiers(tiers, names) ==
    IF names = <<>> THEN <<>>
    ELSE [i \in 1..Len(tiers[Head(names)]) |->
             [carrier_id |-> tiers[Head(names)][i].carrier_id,
              tier |-> Head(names),
              total_score |-> tiers[Head(names)][i].total_score]]
         \o FlattenTiers(tiers, Tail(names))

\* match_node: match_carriers
match_node ==
    /\ match.pc = "extracted"
    /\ route_after_extract(match) = "match_carriers"
    /\ IF match.missing # <<>>
       THEN match' = [match EXCEPT !.pc = "matched",
                                   !.carrier_matches = <<>>]
       ELSE \E query_ok \in BOOLEAN :
               LET carriers == get_active_carriers(match.table, query_ok)
                   scored_carriers ==
                       match_carriers_for_load(carriers, match.load)
                   tiers == get_carrier_tiers(scored_carriers)
               IN  match' = [match EXCEPT
                               !.pc = "matched",
                               !.invoked = TRUE,
                               !.query_ok = query_ok,
                               !.carriers = carriers,
                               !.scores = ScoreAll(carriers, match.load),
                               !.scored_carriers = scored_carriers,
                               !.tiers = tiers,
                               !.carrier_matches =
                                   FlattenTiers(tiers, TIERS)]
    /\ UNCHANGED <<varsIntake, varsBlast, varsResolve, cls, tiering>>

\* save_node: save_to_database posts the load with its carrier matches, at
\* most max_retries times
save_node ==
    /\ match.pc = "matched"
    /\ \E posts \in 1..max_retries, saved \in BOOLEAN :
          match' = [match EXCEPT
                      !.pc = "saved",
                      !.posts = posts,
                      !.load_id = IF saved THEN 1 ELSE 0,
                      !.error_log = IF saved THEN @
                                    ELSE Append(@, "database_save")]
    /\ UNCHANGED <<varsIntake, varsBlast, varsResolve, cls, tiering>>

\* request_info_node: the request is logged, nothing is sent
request_info_node ==
    /\ match.pc = "extracted"
    /\ route_after_extract(match) = "request_info"
    /\ match' = [match EXCEPT !.pc = "requested",
                              !.outcome = "missing_info_requested"]
    /\ UNCHANGED <<varsIntake, varsBlast, varsResolve, cls, tiering>>

complete_node ==
    /\ match.pc \in {"saved", "requested"}
    /\ match' = [match EXCEPT !.pc = "done"]
    /\ UNCHANGED <<varsIntake, varsBlast, varsResolve, cls, tiering>>

InitMatch ==
    /\ loads = <<>>
    /\ intake = IntakeIdle
    /\ handler = [h \in Handlers |-> HandlerIdle]
    /\ followUps = 0
    /\ outbox = <<>>
    /\ BlastUnused
    /\ ResolveUnused
    /\ ClassifyUnused
    /\ \E table \in CarrierTables : match = [MatchIdle EXCEPT !.table = table]
    /\ TiersUnused

NextMatch ==
    \/ parse_node
    \/ extract_node
    \/ match_node
    \/ save_node
    \/ request_info_node
    \/ complete_node

SpecMatch == InitMatch /\ [][NextMatch]_vars

\* C21: match_carriers_for_load is called only with a load that has no
\* required field missing and for which the complexity detectors of
\* intake_graph.py raise no flag on the e-mail text.
C21_MatchOnlyCompleteUngated ==
    match.invoked =>
       /\ missing(match.load) = <<>>
       /\ detect_freight_complexity(match.raw_text, match.load) = <<>>

\* the carrier of the spec's example for a load
IsIdeal(carrier, load_data) ==
    /\ <<Get(load_data, "origin_zip").s, Get(load_data, "dest_zip").s>>
          \in carrier.preferred_lanes
    /\ Lower(GetOr(load_data, "equipment", StrV("Van")).s)
          \in carrier.equipment_types
    /\ carrier.metrics = MkDict(IdealMetrics)

\* C26: every CarrierScore computed has a total equal to the sum of its five
\* sub-scores, each sub-score within its bound, hence a total within 0..100,
\* and the total is 100 for the carrier with an exact lane, exact equipment,
\* 97% on-time, 0.5% claims, excellent safety, 8% margin and activity today.
C26_TotalIsBoundedSum ==
    \A i \in 1..Len(match.scores) :
       LET score == match.scores[i]
       IN  /\ score.total_score =
                 score.lane_score + score.equipment_score
                    + score.performance_score + score.price_score
                    + score.availability_score
           /\ score.lane_score \in 0..30
           /\ score.equipment_score \in 0..25
           /\ score.performance_score \in 0..20
           /\ score.price_score \in 0..15
           /\ score.availability_score \in 0..10
           /\ score.total_score \in 0..100
           /\ score.carrier_id = match.carriers[i].id
           /\ IsIdeal(match.carriers[i], match.load)
                 => score.total_score = 100

\* the ideal carrier was scored next to a carrier with other sub-scores
C26_Witness ==
    /\ match.invoked
    /\ \E i \in 1..Len(match.scores) :
          /\ IsIdeal(match.carriers[i], match.load)
          /\ match.scores[i].total_score = 100
    /\ \E i \in 1..Len(match.scores) :
          /\ match.scores[i].total_score \in 1..99
          /\ match.scores[i].performance_score = 11

\* the positions of the fetched carriers whose total is above 0
Viable == {i \in 1..Len(match.scores) : match.scores[i].total_score > 0}

\* C27: the list match_carriers_for_load returns holds exactly the scores
\* above 0 of the active carriers the store returned, each once, in
\* non-increasing order of total; a carrier with a total of 0 is not in it.
C27_ViableCarriersDescending ==
    match.invoked =>
       /\ \A i \in 1..Len(match.carriers) :
             match.carriers[i].status = "active"
       /\ match.query_ok =>
             {match.carriers[i].id : i \in 1..Len(match.carriers)}
                = {match.table[i].id :
                      i \in {j \in 1..Len(match.table) :
                                match.table[j].status = "active"}}
       /\ Range(match.scored_carriers) = {match.scores[i] : i \in Viable}
       /\ Len(match.scored_carriers) = Cardinality(Viable)
       /\ \A i \in 1..Len(match.scored_carriers) :
             match.scored_carriers[i].total_score > 0
       /\ \A i, j \in 1..Len(match.scored_carriers) :
             i < j => match.scored_carriers[i].total_score
                         >= match.scored_carriers[j].total_score

\* a carrier with a total of 0 was fetched and left out, and the store
\* returned a lower score before a higher one
C27_Witness ==
    /\ match.invoked
    /\ \E i \in 1..Len(match.scores) : match.scores[i].total_score = 0
    /\ Len(match.scored_carriers) = 2
    /\ match.scores[1].total_score > 0
    /\ \E i \in 2..Len(match.scores) :
          match.scores[i].total_score > match.scores[1].total_score

\* the order of the carrier identifiers
CarrierIds == <<"c1", "c2", "c3", "c4", "c5", "c6">>

IdRank(id) == CHOOSE i \in 1..Len(CarrierIds) : CarrierIds[i] = id

\* C28: two carriers of the returned list with equal totals stand in the
\* order of their identifiers.
C28_TiesByCarrierId ==
    match.invoked =>
       \A i, j \in 1..Len(match.scored_carriers) :
          (/\ i < j
           /\ match.scored_carriers[i].total_score
                 = match.scored_carriers[j].total_score)
             => IdRank(match.scored_carriers[i].carrier_id)
                   < IdRank(match.scored_carriers[j].carrier_id)

\* C29: every CarrierScore of the returned list belongs to an active carrier
\* for which the equipment check found a match, that is, whose equipment
\* score is above 0.
C29_ResultHasEquipmentMatch ==
    match.invoked =>
       \A k \in 1..Len(match.scored_carriers) :
          /\ match.scored_carriers[k].equipment_score > 0
          /\ \E i \in 1..Len(match.table) :
                /\ match.table[i].id = match.scored_carriers[k].carrier_id
                /\ match.table[i].status = "active"

(***************************************************************************)
(* SpecTiers: get_carrier_tiers on the list match_carriers_for_load        *)
(* returns: totals above 0 in non-increasing order.  A list is built from  *)
(* the number of its carriers in each score band; the first carrier of a   *)
(* band has the band's highest total, the others its lowest.  A carrier's  *)
(* id is its position in the list.                                         *)
(***************************************************************************)
BandTotals == <<<<100, 80>>, <<79, 60>>, <<59, 40>>, <<39, 1>>>>

\* the carriers of one band, ids from first on
BandList(band, first, count) ==
    [i \in 1..count |->
        [carrier_id |-> first + i - 1,
         total_score |-> IF i = 1 THEN BandTotals[band][1]
                         ELSE BandTotals[band][2]]]

ScoredList(n) ==
    BandList(1, 1, n[1]) \o BandList(2, 1 + n[1], n[2])
       \o BandList(3, 1 + n[1] + n[2], n[3])
       \o BandList(4, 1 + n[1] + n[2] + n[3], n[4])

TierInputs ==
    {ScoredList(<<n1, n2, n3, n4>>) :
        n1 \in {0, 1, 10, 11, 12}, n2 \in {0, 15, 16},
        n3 \in {0, 20, 21}, n4 \in {0, 25, 26}}

AssignTiers ==
    /\ tiering.pc = "called"
    /\ tiering' = [tiering EXCEPT
                     !.pc = "returned",
                     !.tiers = get_carrier_tiers(tiering.scored_carriers)]
    /\ UNCHANGED <<varsIntake, varsBlast, varsResolve, cls, match>>

InitTiers ==
    /\ loads = <<>>
    /\ intake = IntakeIdle
    /\ handler = [h \in Handlers |-> HandlerIdle]
    /\ followUps = 0
    /\ outbox = <<>>
    /\ BlastUnused
    /\ ResolveUnused
    /\ ClassifyUnused
    /\ MatchUnused
    /\ \E scored_carriers \in TierInputs :
          tiering = [pc |-> "called", scored_carriers |-> scored_carriers,
                     tiers |-> [tier \in Range(TIERS) |-> <<>>]]

NextTiers == AssignTiers

SpecTiers == InitTiers /\ [][NextTiers]_vars

\* the score band of a tier
InBand(tier, total_score) ==
    CASE tier = "tier_1" -> total_score >= 80
      [] tier = "tier_2" -> total_score \in 60..79
      [] tier = "tier_3" -> total_score \in 40..59
      [] tier = "tier_4" -> total_score < 40

\* the cap of a tier
TierCap(tier) ==
    CASE tier = "tier_1" -> 10
      [] tier = "tier_2" -> 15
      [] tier = "tier_3" -> 20
      [] tier = "tier_4" -> 25

\* the carrier is in the tier
Placed(carrier, tier) ==
    \E i \in 1..Len(tiering.tiers[tier]) : tiering.tiers[tier][i] = carrier

\* C30: the tiers returned for a score-descending list hold carriers of the
\* list only, each carrier at most once and in at most one tier, each in
\* the tier of its score band, no tier above its cap of 10, 15, 20 or 25,
\* and a carrier of the list is in no tier only when the tier of its band
\* is at its cap and holds only carriers that precede it in the list.
C30_TiersPartitionWithinCaps ==
    tiering.pc = "returned" =>
       /\ \A tier \in Range(TIERS) :
             /\ Len(tiering.tiers[tier]) <= TierCap(tier)
             /\ \A i \in 1..Len(tiering.tiers[tier]) :
                   /\ tiering.tiers[tier][i] \in Range(tiering.scored_carriers)
                   /\ InBand(tier, tiering.tiers[tier][i].total_score)
                   /\ \A other \in Range(TIERS) :
                         \A j \in 1..Len(tiering.tiers[other]) :
                            tiering.tiers[other][j].carrier_id
                                  = tiering.tiers[tier][i].carrier_id
                               => other = tier /\ j = i
       /\ \A k \in 1..Len(tiering.scored_carriers) :
             LET carrier == tiering.scored_carriers[k]
             IN  (\A tier \in Range(TIERS) : ~Placed(carrier, tier))
                    => \E tier \in Range(TIERS) :
                          /\ InBand(tier, carrier.total_score)
                          /\ Len(tiering.tiers[tier]) = TierCap(tier)
                          /\ \A i \in 1..Len(tiering.tiers[tier]) :
                                tiering.tiers[tier][i].carrier_id < k

\* twelve carriers of the first band, sixteen of the second and twenty-six
\* of the fourth: every tier that got carriers is at its cap and the twelfth
\* carrier is left out
C30_Witness ==
    /\ tiering.pc = "returned"
    /\ Len(tiering.tiers["tier_1"]) = 10
    /\ Len(tiering.tiers["tier_2"]) = 15
    /\ Len(tiering.tiers["tier_4"]) = 25
    /\ Len(tiering.scored_carriers) = 12 + 16 + 0 + 26
    /\ ~Placed(tiering.scored_carriers[12], "tier_1")

====
